---- MODULE Spec2Model ----
(***************************************************************************)
(* BottomNavigation (src/src/components/BottomNavigation.js) as a state    *)
(* machine, plus the two pure helpers the specification names:             *)
(* _calculateShift and getAccordionColors.                                 *)
(*                                                                         *)
(* Units.  Animated values that hold a scale or an opacity (tabs, ripple,  *)
(* touch) are kept in thousandths, because MIN_RIPPLE_SCALE is 0.001: the  *)
(* source's 1 is ONE and the source's 0.001 is MIN_RIPPLE_SCALE.  Shifts   *)
(* and state.index are kept in whole units.  Times are milliseconds.       *)
(* Indices are 0-based as in the source; arrays are functions on 0..n-1.   *)
(*                                                                         *)
(* Animated.  An Animated.timing is observed at its two ends: its value is *)
(* the one it started from until the timing ends, and toValue from then    *)
(* on.  Stopping a timing (setValue on its value, or the stop of the       *)
(* parallel it belongs to) ends it where it is and calls the completion    *)
(* callback of the parallel, as Animated.parallel does for a child that    *)
(* ends unfinished.                                                        *)
(***************************************************************************)
EXTENDS Integers, Sequences, FiniteSets, TLC

(* ------------------------------ bounds -------------------------------- *)
\* Largest number of routes the host passes to the mounted component.
MaxRoutes == 3
\* Largest number of routes render() is applied to.
MaxRenderRoutes == 5
\* Largest numberOfItems _calculateShift is applied to.
MaxItems == 5

(* ------------------------- program constants -------------------------- *)
MIN_RIPPLE_SCALE == 1
MIN_SHIFT_AMOUNT == 10
MIN_TAB_WIDTH == 96
MAX_TAB_WIDTH == 168
BAR_HEIGHT == 56
RIPPLE_DURATION == 400
DELAY_DURATION == 100
TAB_DURATION == 200
\* Routes above which shifting is the default.
SHIFTING_THRESHOLD == 3

\* The source's 1 for an Animated scale or opacity, in thousandths.
ONE == 1000 * MIN_RIPPLE_SCALE

(* ------------------------------ helpers ------------------------------- *)
\* Array.prototype.length of an array kept as a function on 0..n-1.
Length(arr) == Cardinality(DOMAIN arr)

\* Keys the host names its routes with, in tab order.
RouteKeys == <<"music", "albums", "recents", "purchased", "settings", "profile">>

\* The routes array of a host that shows the first n tabs.
Routes(n) == [i \in 0..(n - 1) |-> [key |-> RouteKeys[i + 1]]]

\* Array.prototype.findIndex(route => route.key === key): first match or -1.
FindIndex(routes, key) ==
    IF \E i \in DOMAIN routes : routes[i].key = key
    THEN CHOOSE i \in DOMAIN routes :
            /\ routes[i].key = key
            /\ \A j \in DOMAIN routes : routes[j].key = key => i <= j
    ELSE -1

(* --------------------------- _calculateShift --------------------------- *)
calculateShift_NoEdge(activeIndex, currentIndex, numberOfItems) ==
    IF activeIndex < currentIndex THEN 2 * MIN_SHIFT_AMOUNT
    ELSE IF activeIndex > currentIndex THEN -2 * MIN_SHIFT_AMOUNT
    ELSE IF currentIndex = 0 THEN MIN_SHIFT_AMOUNT
    ELSE IF currentIndex = numberOfItems THEN -MIN_SHIFT_AMOUNT
    ELSE 0

calculateShift(activeIndex, currentIndex, numberOfItems) ==
    IF activeIndex < currentIndex THEN 2 * MIN_SHIFT_AMOUNT
    ELSE IF activeIndex > currentIndex THEN -2 * MIN_SHIFT_AMOUNT
    ELSE IF currentIndex = 0 THEN MIN_SHIFT_AMOUNT
    ELSE IF currentIndex = numberOfItems - 1 THEN -MIN_SHIFT_AMOUNT
    ELSE 0

(* ------------------------------- state -------------------------------- *)
VARIABLES
    props,      \* this.props: navigationState, onTabPress
    state,      \* this.state: tabs, shifts, index, ripple, touch, layout, previous
    tabAnim,    \* the Animated.parallel started by componentDidUpdate, if running
    touchAnim,  \* the Animated.timing on state.touch started by a tab press, if running
    op,         \* the operation that ran last and its arguments
    calls,      \* the host callbacks that operation made, in order
    shiftCall,  \* a call of _calculateShift: arguments and result
    renderCall, \* a call of render(): the props and layout it reads, and its result
    colorCall   \* a call of getAccordionColors: arguments and result

vars == <<props, state, tabAnim, touchAnim, op, calls, shiftCall, renderCall, colorCall>>

compVars == <<props, state, tabAnim, touchAnim, op, calls>>

pureVars == <<shiftCall, renderCall, colorCall>>

\* nativeEvent.layout of an onLayout event.
Layouts == { [height |-> BAR_HEIGHT, width |-> 320], [height |-> BAR_HEIGHT, width |-> 360] }

NoAnim == [running |-> FALSE, index |-> 0, n |-> 0, elapsed |-> 0]

NoTouch == [running |-> FALSE]

Op(name, index, key) == [name |-> name, index |-> index, key |-> key]

IndexChangeCall(index) ==
    [fn |-> "onIndexChange", index |-> index, route |-> "", focused |-> FALSE]

TabPressCall(route, focused) ==
    [fn |-> "onTabPress", index |-> -1, route |-> route.key, focused |-> focused]

(* ------------------------------- render -------------------------------- *)
\* props.shifting as the host may pass it: a boolean, left out, or null.
ShiftingProps ==
    { [type |-> "boolean", value |-> TRUE],
      [type |-> "boolean", value |-> FALSE],
      [type |-> "undefined", value |-> FALSE],
      [type |-> "object", value |-> FALSE] }

Shifting_AtLeast(shifting, routes) ==
    IF shifting.type = "boolean"
    THEN shifting.value
    ELSE Length(routes) >= SHIFTING_THRESHOLD

\* const shifting = typeof this.props.shifting === 'boolean' ? ... : ...
Shifting(shifting, routes) ==
    IF shifting.type = "boolean"
    THEN shifting.value
    ELSE Length(routes) > SHIFTING_THRESHOLD

\* pointerEvents of the container render() returns: no touch reaches a tab
\* until the layout is measured.
PointerEvents(layout) == IF layout.measured THEN "auto" ELSE "none"

\* What render() derives from the props and the layout.
Render(shifting, navigationState, layout) ==
    [shifting |-> Shifting(shifting, navigationState.routes),
     maxTabWidth |-> IF Length(navigationState.routes) > SHIFTING_THRESHOLD
                     THEN MIN_TAB_WIDTH ELSE MAX_TAB_WIDTH,
     pointerEvents |-> PointerEvents(layout),
     scenePointerEvents |-> [i \in DOMAIN navigationState.routes |->
                               IF navigationState.index = i THEN "auto" ELSE "none"]]

NoRender == [shifting |-> FALSE, maxTabWidth |-> 0, pointerEvents |-> "none",
             scenePointerEvents |-> <<>>]

(* ------------------------- getAccordionColors -------------------------- *)
\* A colour string is kept as its notation and its channels; alpha is in
\* hundredths.  '#000000', 'rgba(28, 27, 31, 1)' and '#6200ee':
Palette ==
    { [fmt |-> "hex", r |-> 0, g |-> 0, b |-> 0, a |-> 100],
      [fmt |-> "rgba", r |-> 28, g |-> 27, b |-> 31, a |-> 100],
      [fmt |-> "hex", r |-> 98, g |-> 0, b |-> 238, a |-> 100] }

\* A colour the theme does not define.
Undefined == [fmt |-> "undefined", r |-> 0, g |-> 0, b |-> 0, a |-> 0]

\* color(string): the parsed colour object.
Color(str) == [r |-> str.r, g |-> str.g, b |-> str.b, alpha |-> str.a]

\* .alpha(value)
Alpha(c, value) == [c EXCEPT !.alpha = value]

\* .rgb().string(): 'rgb(r, g, b)' for an opaque colour, else 'rgba(r, g, b, a)'.
RgbString(c) ==
    [fmt |-> IF c.alpha = 100 THEN "rgb" ELSE "rgba",
     r |-> c.r, g |-> c.g, b |-> c.b, a |-> c.alpha]

\* color(string).alpha(value).rgb().string()
WithAlpha(str, value) == RgbString(Alpha(Color(str), value))

getAccordionColors_TextEverywhere(theme, isExpanded) ==
    LET titleColor == WithAlpha(theme.colors.text, 87)
        descriptionColor == WithAlpha(theme.colors.text, 54)
        titleTextColor == IF isExpanded THEN theme.colors.primary ELSE titleColor
    IN [titleColor |-> titleColor,
        descriptionColor |-> descriptionColor,
        titleTextColor |-> titleTextColor,
        rippleColor |-> WithAlpha(titleTextColor, 12)]

getAccordionColors_RippleOfTitle(theme, isExpanded) ==
    LET isV3 == theme.version = 3
        titleColor == IF isV3 THEN theme.colors.onSurface
                      ELSE WithAlpha(theme.colors.text, 87)
        descriptionColor == IF isV3 THEN theme.colors.onSurfaceVariant
                            ELSE WithAlpha(theme.colors.text, 54)
        titleTextColor == IF isExpanded THEN theme.colors.primary ELSE titleColor
    IN [titleColor |-> titleColor,
        descriptionColor |-> descriptionColor,
        titleTextColor |-> titleTextColor,
        rippleColor |-> WithAlpha(titleColor, 12)]

getAccordionColors(theme, isExpanded) ==
    LET isV3 == theme.version = 3
        titleColor == IF isV3 THEN theme.colors.onSurface
                      ELSE WithAlpha(theme.colors.text, 87)
        descriptionColor == IF isV3 THEN theme.colors.onSurfaceVariant
                            ELSE WithAlpha(theme.colors.text, 54)
        titleTextColor == IF isExpanded THEN theme.colors.primary ELSE titleColor
    IN [titleColor |-> titleColor,
        descriptionColor |-> descriptionColor,
        titleTextColor |-> titleTextColor,
        rippleColor |-> WithAlpha(titleTextColor, 12)]

\* The themes getTheme() returns: a version 3 theme names onSurface and
\* onSurfaceVariant, a version 2 theme names text.
Themes ==
    { [version |-> 3,
       colors |-> [onSurface |-> os, onSurfaceVariant |-> osv, text |-> Undefined,
                   primary |-> pr]] : os \in Palette, osv \in Palette, pr \in Palette }
    \cup
    { [version |-> 2,
       colors |-> [onSurface |-> Undefined, onSurfaceVariant |-> Undefined,
                   text |-> tx, primary |-> pr]] : tx \in Palette, pr \in Palette }

NoColors == [titleColor |-> Undefined, descriptionColor |-> Undefined,
             titleTextColor |-> Undefined, rippleColor |-> Undefined]

(* ----------------------------- constructor ----------------------------- *)
Constructor(p) ==
    LET routes == p.navigationState.routes
        index == p.navigationState.index
    IN [tabs |-> [i \in DOMAIN routes |-> IF i = index THEN ONE ELSE 0],
        shifts |-> [i \in DOMAIN routes |-> calculateShift(index, i, Length(routes))],
        index |-> index,
        ripple |-> MIN_RIPPLE_SCALE,
        touch |-> MIN_RIPPLE_SCALE,
        layout |-> [height |-> 0, width |-> 0, measured |-> FALSE],
        previous |-> 0]

\* navigationState values with up to maxLen routes whose index names a route.
NavigationStates(maxLen) ==
    { [index |-> i, routes |-> Routes(n)] : n \in 1..maxLen, i \in 0..(maxLen - 1) }

ValidNavigationStates(maxLen) ==
    { ns \in NavigationStates(maxLen) : ns.index \in DOMAIN ns.routes }

\* The props the model follows: navigationState, and whether onTabPress is given.
ValidProps(maxLen) ==
    { [navigationState |-> ns, onTabPress |-> otp] :
        ns \in ValidNavigationStates(maxLen), otp \in BOOLEAN }

IdleShiftCall == [activeIndex |-> 0, currentIndex |-> 0, numberOfItems |-> 1,
                  result |-> 0, done |-> FALSE]

IdleRenderCall == [shifting |-> [type |-> "undefined", value |-> FALSE],
                   navigationState |-> [index |-> 0, routes |-> Routes(1)],
                   layout |-> [height |-> 0, width |-> 0, measured |-> FALSE],
                   result |-> NoRender, done |-> FALSE]

IdleColorCall == [theme |-> [version |-> 3,
                             colors |-> [onSurface |-> Undefined,
                                         onSurfaceVariant |-> Undefined,
                                         text |-> Undefined, primary |-> Undefined]],
                  isExpanded |-> FALSE, result |-> NoColors, done |-> FALSE]

PureIdle ==
    /\ shiftCall = IdleShiftCall
    /\ renderCall = IdleRenderCall
    /\ colorCall = IdleColorCall

\* The component right after construction with props p.
Constructed(p) ==
    /\ props = p
    /\ state = Constructor(p)
    /\ tabAnim = NoAnim
    /\ touchAnim = NoTouch
    /\ op = Op("constructor", -1, "")
    /\ calls = <<>>

Init ==
    /\ \E p \in ValidProps(MaxRoutes) : Constructed(p)
    /\ PureIdle

(* ------------------------- Animated, abstractly ------------------------ *)
\* The instants at which the animation componentDidUpdate builds changes
\* something: the delay ends, the tab and shift timings end, the ripple
\* timing (and with it the parallel) ends.
Boundaries == {DELAY_DURATION, DELAY_DURATION + TAB_DURATION, RIPPLE_DURATION}

\* The first boundary after `elapsed` milliseconds.
NextBoundary(elapsed) ==
    CHOOSE b \in Boundaries :
        /\ b > elapsed
        /\ \A c \in Boundaries : c > elapsed => b <= c

\* The callback given to Animated.parallel(...).start, closed over `index`.
CompletionCallback(s, index) ==
    [s EXCEPT !.tabs = [i \in DOMAIN s.tabs |-> IF i = index THEN ONE ELSE 0],
              !.index = index,
              !.ripple = MIN_RIPPLE_SCALE]

\* The toValue of the timings on state.tabs and state.shifts reached: the
\* routes and the index are those componentDidUpdate read when it built them.
TimingsEnd(s, a) ==
    [s EXCEPT
        !.tabs = [i \in DOMAIN s.tabs |->
                    IF i < a.n THEN (IF i = a.index THEN ONE ELSE 0) ELSE s.tabs[i]],
        !.shifts = [i \in DOMAIN s.shifts |->
                    IF i < a.n THEN calculateShift(a.index, i, a.n) ELSE s.shifts[i]]]

(* ------------------------------ handlers ------------------------------- *)
TabPressCalls_Always(p, index) ==
    <<IndexChangeCall(index)>>
    \o (IF p.onTabPress
        THEN <<TabPressCall(p.navigationState.routes[index],
                            p.navigationState.index = index)>>
        ELSE <<>>)

TabPressCalls_PressFirst(p, index) ==
    (IF p.onTabPress
     THEN <<TabPressCall(p.navigationState.routes[index],
                         p.navigationState.index = index)>>
     ELSE <<>>)
    \o (IF index # p.navigationState.index THEN <<IndexChangeCall(index)>> ELSE <<>>)

\* The host callbacks _handleTabPress(index) makes, in order.
TabPressCalls(p, index) ==
    (IF index # p.navigationState.index THEN <<IndexChangeCall(index)>> ELSE <<>>)
    \o (IF p.onTabPress
        THEN <<TabPressCall(p.navigationState.routes[index],
                            p.navigationState.index = index)>>
        ELSE <<>>)

JumpToCalls_SkipActive(p, key) ==
    LET index == FindIndex(p.navigationState.routes, key)
    IN IF index # p.navigationState.index THEN <<IndexChangeCall(index)>> ELSE <<>>

\* The host callbacks _jumpTo(key) makes, in order.
JumpToCalls(p, key) ==
    <<IndexChangeCall(FindIndex(p.navigationState.routes, key))>>

\* componentWillReceiveProps(nextProps)
WillReceiveProps(p, s, nextProps) ==
    IF nextProps.navigationState.index # p.navigationState.index
    THEN [s EXCEPT !.previous = p.navigationState.index]
    ELSE s

IndexChanged_Always(prevProps, p) == TRUE

\* Whether componentDidUpdate goes past its early return.
IndexChanged(prevProps, p) ==
    prevProps.navigationState.index # p.navigationState.index

\* The state componentDidUpdate leaves when the index has changed:
\* ripple.setValue stops a parallel that is still running, whose callback then
\* runs, before the new parallel is started.
DidUpdateState(s, a) ==
    LET stopped == IF a.running THEN CompletionCallback(s, a.index) ELSE s
    IN [stopped EXCEPT !.ripple = MIN_RIPPLE_SCALE]

\* The host passes new props: componentWillReceiveProps, render,
\* componentDidUpdate.  render() reads state.tabs[i] for every route, so the
\* routes never outnumber the Animated values made at construction.
ReceiveProps(nextProps) ==
    LET changed == IndexChanged(props, nextProps)
        s1 == WillReceiveProps(props, state, nextProps)
    IN /\ Length(nextProps.navigationState.routes) <= Length(state.tabs)
       /\ props' = nextProps
       /\ state' = IF changed THEN DidUpdateState(s1, tabAnim) ELSE s1
       /\ tabAnim' = IF changed
                     THEN [running |-> TRUE,
                           index |-> nextProps.navigationState.index,
                           n |-> Length(nextProps.navigationState.routes),
                           elapsed |-> 0]
                     ELSE tabAnim
       /\ op' = Op("props", nextProps.navigationState.index, "")
       /\ calls' = <<>>
       /\ UNCHANGED <<touchAnim, pureVars>>

\* _handleLayout(e)
HandleLayout(layout) ==
    /\ state' = [state EXCEPT !.layout = [height |-> layout.height,
                                          width |-> layout.width,
                                          measured |-> TRUE]]
    /\ op' = Op("layout", -1, "")
    /\ calls' = <<>>
    /\ UNCHANGED <<props, tabAnim, touchAnim, pureVars>>

\* _handleTabPress(index), reached through the onPress of tab `index`.
HandleTabPress(index) ==
    /\ PointerEvents(state.layout) = "auto"
    /\ index \in DOMAIN props.navigationState.routes
    /\ state' = [state EXCEPT !.touch = MIN_RIPPLE_SCALE]
    /\ touchAnim' = [running |-> TRUE]
    /\ op' = Op("press", index, "")
    /\ calls' = TabPressCalls(props, index)
    /\ UNCHANGED <<props, tabAnim, pureVars>>

\* _jumpTo(key), called by a scene.
JumpTo(key) ==
    /\ op' = Op("jumpTo", -1, key)
    /\ calls' = JumpToCalls(props, key)
    /\ UNCHANGED <<props, state, tabAnim, touchAnim, pureVars>>

\* The animation driver brings the running parallel to its next boundary; at
\* the last one the parallel is over and its completion callback runs.
AnimationStep ==
    /\ tabAnim.running
    /\ LET b == NextBoundary(tabAnim.elapsed)
           s1 == IF b = DELAY_DURATION + TAB_DURATION
                 THEN TimingsEnd(state, tabAnim) ELSE state
       IN IF b = RIPPLE_DURATION
          THEN /\ state' = CompletionCallback([s1 EXCEPT !.ripple = ONE], tabAnim.index)
               /\ tabAnim' = NoAnim
          ELSE /\ state' = s1
               /\ tabAnim' = [tabAnim EXCEPT !.elapsed = b]
    /\ op' = Op("frame", -1, "")
    /\ calls' = <<>>
    /\ UNCHANGED <<props, touchAnim, pureVars>>

\* The timing on state.touch that a tab press started ends; it has no callback.
TouchEnd ==
    /\ touchAnim.running
    /\ state' = [state EXCEPT !.touch = ONE]
    /\ touchAnim' = NoTouch
    /\ op' = Op("touch", -1, "")
    /\ calls' = <<>>
    /\ UNCHANGED <<props, tabAnim, pureVars>>

\* Keys a scene may pass to jumpTo: those of the routes and some of no route.
JumpKeys == { RouteKeys[i] : i \in 1..(MaxRoutes + 1) }

Next ==
    \/ \E nextProps \in ValidProps(MaxRoutes) : ReceiveProps(nextProps)
    \/ \E layout \in Layouts : HandleLayout(layout)
    \/ \E index \in 0..(MaxRoutes - 1) : HandleTabPress(index)
    \/ \E key \in JumpKeys : JumpTo(key)
    \/ AnimationStep
    \/ TouchEnd

Spec == Init /\ [][Next]_vars

(* --------------------- the pure functions, applied --------------------- *)
\* A component that is mounted and left alone while a pure function is applied.
CompIdle == Constructed([navigationState |-> [index |-> 0, routes |-> Routes(1)],
                         onTabPress |-> FALSE])

InitShift ==
    /\ CompIdle
    /\ renderCall = IdleRenderCall
    /\ colorCall = IdleColorCall
    /\ \E a \in 0..(MaxItems - 1), c \in 0..(MaxItems - 1), n \in 1..MaxItems :
          shiftCall = [activeIndex |-> a, currentIndex |-> c, numberOfItems |-> n,
                       result |-> 0, done |-> FALSE]

CalculateShiftCall ==
    /\ ~shiftCall.done
    /\ shiftCall' = [shiftCall EXCEPT
                       !.result = calculateShift(shiftCall.activeIndex,
                                                 shiftCall.currentIndex,
                                                 shiftCall.numberOfItems),
                       !.done = TRUE]
    /\ UNCHANGED <<compVars, renderCall, colorCall>>

NextShift == CalculateShiftCall

SpecShift == InitShift /\ [][NextShift]_vars

InitRender ==
    /\ CompIdle
    /\ shiftCall = IdleShiftCall
    /\ colorCall = IdleColorCall
    /\ \E sh \in ShiftingProps, ns \in ValidNavigationStates(MaxRenderRoutes),
          layout \in {[height |-> 0, width |-> 0, measured |-> FALSE]}
                     \cup {[l EXCEPT !.measured = TRUE] :
                             l \in {[height |-> y.height, width |-> y.width,
                                     measured |-> FALSE] : y \in Layouts}} :
          renderCall = [shifting |-> sh, navigationState |-> ns, layout |-> layout,
                        result |-> NoRender, done |-> FALSE]

RenderCall ==
    /\ ~renderCall.done
    /\ renderCall' = [renderCall EXCEPT
                        !.result = Render(renderCall.shifting,
                                          renderCall.navigationState,
                                          renderCall.layout),
                        !.done = TRUE]
    /\ UNCHANGED <<compVars, shiftCall, colorCall>>

NextRender == RenderCall

SpecRender == InitRender /\ [][NextRender]_vars

InitColors ==
    /\ CompIdle
    /\ shiftCall = IdleShiftCall
    /\ renderCall = IdleRenderCall
    /\ \E theme \in Themes, isExpanded \in BOOLEAN :
          colorCall = [theme |-> theme, isExpanded |-> isExpanded,
                       result |-> NoColors, done |-> FALSE]

GetAccordionColorsCall ==
    /\ ~colorCall.done
    /\ colorCall' = [colorCall EXCEPT
                       !.result = getAccordionColors(colorCall.theme,
                                                     colorCall.isExpanded),
                       !.done = TRUE]
    /\ UNCHANGED <<compVars, shiftCall, renderCall>>

NextColors == GetAccordionColorsCall

SpecColors == InitColors /\ [][NextColors]_vars

(* ------------------------------- claims -------------------------------- *)
\* The onIndexChange calls among the calls of the last operation.
IndexChangeCalls == SelectSeq(calls, LAMBDA c : c.fn = "onIndexChange")

\* The onTabPress calls among the calls of the last operation.
OnTabPressCalls == SelectSeq(calls, LAMBDA c : c.fn = "onTabPress")

\* C1: a press on tab i calls onIndexChange exactly once, with i, when i is
\* not navigationState.index, and not at all when it is.
C1_TabPressIndexChange ==
    op.name = "press" =>
        IF op.index # props.navigationState.index
        THEN IndexChangeCalls = <<IndexChangeCall(op.index)>>
        ELSE IndexChangeCalls = <<>>

C1_Witness ==
    /\ op.name = "press"
    /\ op.index # props.navigationState.index
    /\ IndexChangeCalls = <<IndexChangeCall(op.index)>>

\* C2: a tab press, a jumpTo, a layout event or a props update that keeps
\* navigationState.index leaves tabs, shifts, state.index and previous as they
\* were and starts no tab-switch animation; of the state, a tab press changes
\* the touch value only.
C2_Controlled ==
    [][ (\/ op'.name \in {"press", "jumpTo", "layout"}
         \/ /\ op'.name = "props"
            /\ props'.navigationState.index = props.navigationState.index)
        => /\ state'.tabs = state.tabs
           /\ state'.shifts = state.shifts
           /\ state'.index = state.index
           /\ state'.previous = state.previous
           /\ tabAnim' = tabAnim
           /\ (op'.name = "press" =>
                 state' = [state EXCEPT !.touch = MIN_RIPPLE_SCALE]) ]_vars

\* A press that asked for another tab and has not been answered.
C2_Witness ==
    /\ op.name = "press"
    /\ IndexChangeCalls # <<>>
    /\ ~tabAnim.running
    /\ state.index = props.navigationState.index
    /\ state.tabs[props.navigationState.index] = ONE
    /\ state.tabs[op.index] = 0

\* C3: for 0 <= activeIndex, currentIndex < numberOfItems, _calculateShift is
\* +20 when activeIndex < currentIndex, -20 when activeIndex > currentIndex,
\* and for equal indices +10 at the first tab, else -10 at the last, else 0.
C3_CalculateShift ==
    (/\ shiftCall.done
     /\ shiftCall.activeIndex < shiftCall.numberOfItems
     /\ shiftCall.currentIndex < shiftCall.numberOfItems)
    => shiftCall.result =
         (IF shiftCall.activeIndex < shiftCall.currentIndex THEN 20
          ELSE IF shiftCall.activeIndex > shiftCall.currentIndex THEN -20
          ELSE IF shiftCall.currentIndex = 0 THEN 10
          ELSE IF shiftCall.currentIndex = shiftCall.numberOfItems - 1 THEN -10
          ELSE 0)

C3_Witness ==
    /\ shiftCall.done
    /\ shiftCall.activeIndex = shiftCall.currentIndex
    /\ shiftCall.currentIndex > 0
    /\ shiftCall.currentIndex = shiftCall.numberOfItems - 1
    /\ shiftCall.result = -10

\* C4: every onIndexChange call, from a tab press or from jumpTo with any
\* key, receives the index of one of the routes.
C4_IndexChangeArgIsTab ==
    \A k \in 1..Len(calls) :
        calls[k].fn = "onIndexChange" =>
            calls[k].index \in DOMAIN props.navigationState.routes

\* C5: jumpTo with the key of the route at i calls onIndexChange once, with i,
\* also when i is the active index, calls nothing else and leaves the touch
\* ripple alone.
C5_JumpTo ==
    [][ op'.name = "jumpTo" =>
          \A i \in DOMAIN props.navigationState.routes :
              props.navigationState.routes[i].key = op'.key =>
                  /\ calls' = <<IndexChangeCall(i)>>
                  /\ state'.touch = state.touch
                  /\ touchAnim' = touchAnim ]_vars

\* jumpTo to the tab that is already active.
C5_Witness ==
    /\ op.name = "jumpTo"
    /\ props.navigationState.index \in DOMAIN props.navigationState.routes
    /\ props.navigationState.routes[props.navigationState.index].key = op.key
    /\ calls = <<IndexChangeCall(props.navigationState.index)>>

\* C6: with onTabPress given, a press calls it exactly once, with the route
\* of the pressed tab and focused = (pressed index = navigationState.index),
\* after any onIndexChange call of the same press.
C6_OnTabPress ==
    (op.name = "press" /\ props.onTabPress) =>
        /\ OnTabPressCalls =
             <<TabPressCall(props.navigationState.routes[op.index],
                            op.index = props.navigationState.index)>>
        /\ calls[Len(calls)].fn = "onTabPress"

C6_Witness ==
    /\ op.name = "press"
    /\ props.onTabPress
    /\ Len(calls) = 2
    /\ calls[1].fn = "onIndexChange"
    /\ calls[2].fn = "onTabPress"
    /\ ~calls[2].focused

\* C7: whenever no tab-switch animation is in flight, every shifts[i] is
\* _calculateShift(navigationState.index, i, routes.length).
C7_SettledShifts ==
    ~tabAnim.running =>
        \A i \in DOMAIN props.navigationState.routes :
            state.shifts[i] = calculateShift(props.navigationState.index, i,
                                             Length(props.navigationState.routes))

\* C8: shifting mode is used exactly when props.shifting is true, or is not a
\* boolean and there are more than 3 routes.
C8_ShiftingMode ==
    renderCall.done =>
        (renderCall.result.shifting
           <=> \/ (renderCall.shifting.type = "boolean" /\ renderCall.shifting.value)
               \/ (/\ renderCall.shifting.type # "boolean"
                   /\ Length(renderCall.navigationState.routes) > 3))

\* shifting = true with no more than 3 routes.
C8_Witness ==
    /\ renderCall.done
    /\ renderCall.shifting.type = "boolean"
    /\ renderCall.shifting.value
    /\ Length(renderCall.navigationState.routes) <= 3
    /\ renderCall.result.shifting

\* C9: not expanded, titleColor and titleTextColor are colors.onSurface and
\* descriptionColor is colors.onSurfaceVariant for a version 3 theme, and
\* colors.text at alpha 0.87 and at alpha 0.54 for a version 2 theme;
\* expanded, titleTextColor is colors.primary.
C9_AccordionColors ==
    colorCall.done =>
        LET theme == colorCall.theme
            result == colorCall.result
        IN /\ theme.version = 3 =>
                /\ result.titleColor = theme.colors.onSurface
                /\ result.descriptionColor = theme.colors.onSurfaceVariant
           /\ theme.version = 2 =>
                /\ result.titleColor =
                     [fmt |-> "rgba", r |-> theme.colors.text.r,
                      g |-> theme.colors.text.g, b |-> theme.colors.text.b, a |-> 87]
                /\ result.descriptionColor =
                     [fmt |-> "rgba", r |-> theme.colors.text.r,
                      g |-> theme.colors.text.g, b |-> theme.colors.text.b, a |-> 54]
           /\ result.titleTextColor =
                IF colorCall.isExpanded THEN theme.colors.primary
                ELSE result.titleColor

C9_Witness ==
    /\ colorCall.done
    /\ colorCall.theme.version = 2
    /\ ~colorCall.isExpanded
    /\ colorCall.result.titleTextColor.fmt = "rgba"
    /\ colorCall.result.titleTextColor.a = 87
    /\ colorCall.result.descriptionColor.a = 54

\* C10: rippleColor is the titleTextColor of the same result at alpha 0.12:
\* onSurface for version 3, the 0.87-alpha text colour for version 2, primary
\* when expanded.
C10_RippleColor ==
    colorCall.done =>
        LET theme == colorCall.theme
            result == colorCall.result
            base == IF colorCall.isExpanded THEN theme.colors.primary
                    ELSE IF theme.version = 3 THEN theme.colors.onSurface
                    ELSE [fmt |-> "rgba", r |-> theme.colors.text.r,
                          g |-> theme.colors.text.g, b |-> theme.colors.text.b,
                          a |-> 87]
        IN /\ result.rippleColor =
                [fmt |-> "rgba", r |-> base.r, g |-> base.g, b |-> base.b, a |-> 12]
           /\ result.rippleColor =
                [fmt |-> "rgba", r |-> result.titleTextColor.r,
                 g |-> result.titleTextColor.g, b |-> result.titleTextColor.b,
                 a |-> 12]

C10_Witness ==
    /\ colorCall.done
    /\ colorCall.isExpanded
    /\ colorCall.theme.colors.primary # colorCall.result.titleColor
    /\ colorCall.result.rippleColor.a = 12
    /\ colorCall.result.rippleColor.r = colorCall.theme.colors.primary.r
    /\ colorCall.result.rippleColor.r # colorCall.result.titleColor.r

\* A step in which the completion callback of a parallel runs: the parallel
\* reaches its end, or componentDidUpdate stops it on a changed index.
CallbackRuns ==
    /\ tabAnim.running
    /\ \/ ~tabAnim'.running
       \/ /\ op'.name = "props"
          /\ props'.navigationState.index # props.navigationState.index

\* C11: what a completion callback writes to state.index and to tabs is for
\* the navigationState.index that is current when it writes, also when the
\* index changed again while the animation was in flight.
C11_CallbackWritesCurrentIndex ==
    [][ CallbackRuns =>
          /\ state'.index = props'.navigationState.index
          /\ \/ tabAnim'.running
             \/ state'.tabs = [i \in DOMAIN state.tabs |->
                                 IF i = props'.navigationState.index THEN ONE ELSE 0]
      ]_vars

====
